---------------------------- MODULE Spec2Model ----------------------------
(***************************************************************************)
(* A model of the planet / obstacle simulation of indie-varvars-23         *)
(* (src/src/main.rs, src/src/ui.rs): the per-frame systems registered in   *)
(* main(), the two state machines (AppState, LoadingState) and the         *)
(* engine's frame structure they run in.                                   *)
(*                                                                         *)
(* Units.  f32 quantities are fixed-point integers:                        *)
(*   lengths     1/100 of a world unit          (715.  -> 71500)           *)
(*   velocities  1/100 of a world unit per second                          *)
(*   angles      1/1000 of a radian             (PI    -> 3142)            *)
(*   time steps  1/10 of a second               (time.delta_seconds())     *)
(* Every product with the time step is divided by 10 (PerFrame).           *)
(*                                                                         *)
(* Player and planets are spawned with x = 0 and every system that moves   *)
(* them moves them along the contact normal, which is then vertical, so    *)
(* only their y coordinate is kept; obstacles have x and y.                *)
(***************************************************************************)
EXTENDS Integers, Sequences, FiniteSets, TLC

VARIABLES
    app_state,          \* State<AppState>
    next_app_state,     \* NextState<AppState>: "NoState" or the queued state
    loading_state,      \* State<LoadingState>
    next_loading_state, \* NextState<LoadingState>
    entered,            \* run_enter_schedule has run (run_once)
    phase,              \* which schedule of the frame is running
    pending,            \* systems of the running schedule that have not run yet
    on_enter,           \* systems of the OnEnter schedule being run
    free,               \* the systems of this frame's Update run in any order
    dt,                 \* time.delta_seconds() of the frame, in 1/10 s
    planets,            \* the Planet entities, in query order
    player,             \* the Player entities, in query order
    events,             \* Events<PlanetSpawnEvent>
    game_manager,       \* GameManager
    loading,            \* AssetsLoading: number of tracked handles
    replay_button,      \* Visibility of the ReplayButton node: "Hidden",
                        \* "Visible", or "Computed" once PostUpdate saw it
    budget,             \* inputs the environment has used so far
    hist                \* observations of the running frame (history only)

vars == <<app_state, next_app_state, loading_state, next_loading_state,
          entered, phase, pending, on_enter, free, dt, planets, player,
          events, game_manager, loading, replay_button, budget, hist>>

-----------------------------------------------------------------------------
(* Bounds of the exploration.                                              *)

\* The environment follows a plain run of the game: every frame takes 1/10 s,
\* the systems of Update run in the order main() lists them in, S is not
\* held, and Space is pressed only while an obstacle is at most JumpWindow
\* (1/1000 rad) before the top of its planet.  A run leaves the plain run in
\* one frame at most, in one of four ways: the frame takes 2/10 s, its
\* systems run in any order, S is held, or Space is pressed at another time.
JumpWindow == 800
\* presses of the replay button per run
MaxRestarts == 1
\* planets completed in a game before the exploration stops, under Spec and
\* under SpecDeep
MaxScore == 1
DeepScore == 3
\* planets alive at once
MaxPlanets == 2
\* obstacles of a planet of the infinite mode (the program: OBSTACLES_MAX_NUM)
MaxRandomObstacles == 2
\* fall speed of the player beyond which the exploration stops
MaxFallSpeed == 300000
\* sprite size of a planet below which the exploration stops
MinSize == 18000

DtSet == {1, 2}

-----------------------------------------------------------------------------
(* Program constants (main.rs 20-49), in the units above.                  *)

PLAYER_JUMP_STRENGTH == 45000
GRAVITY_STRENGTH == -2743
PLAYER_FALL_ACCELERATION == -300000
PLANET_SIZE == 71500
PLAYER_START_POSITION == PLANET_SIZE
PLAYER_SIZE == 6400
PLANET_ROTATION_SPEED == 1000
PLANET_SHRINK_SPEED == 5000
PLANET_SHRINK_LIMIT == 20000
PLANET_FACE_NORMAL_THRESHOLD == 25000
PLANET_FACE_BAD_THRESHOLD == 17500
OBSTACLE_SIZE == 6400
OBSTACLE_MOVEMENT_SPEED == 2000
OBSTACLES_MAX_NUM == 7
PI == 3142
TWO_PI == 6283

Abs(x) == IF x < 0 THEN -x ELSE x

Min(a, b) == IF a < b THEN a ELSE b

\* rate * time.delta_seconds()
PerFrame(rate, d) == (rate * d) \div 10

-----------------------------------------------------------------------------
(* PlanetVariant (main.rs 96-159).                                         *)

PlanetVariant == {"Earth", "Venus", "Mars", "Mercury", "Jupiter", "Neptune", "Uran"}

\* PlanetVariant::next
next(v) ==
    CASE v = "Earth"   -> "Venus"
      [] v = "Venus"   -> "Mars"
      [] v = "Mars"    -> "Mercury"
      [] v = "Mercury" -> "Jupiter"
      [] v = "Jupiter" -> "Neptune"
      [] v = "Neptune" -> "Uran"
      [] v = "Uran"    -> "Earth"

\* f32::to_radians, to 1/1000 rad
to_radians(deg) == (deg * 31416 + 900) \div 1800

\* PlanetVariant::get_obstacles: the scripted layout of a variant
get_obstacles(v) ==
    CASE v = "Earth"   -> <<0>>
      [] v = "Venus"   -> <<0, PI>>
      [] v = "Mars"    -> <<to_radians(290), to_radians(270), to_radians(250)>>
      [] v = "Mercury" -> <<PI, to_radians(30), 0, to_radians(330)>>
      [] v = "Jupiter" -> <<PI \div 6, to_radians(150), to_radians(270)>>
      [] v = "Neptune" -> <<PI \div 4, PI \div 6, to_radians(15),
                            to_radians(240), to_radians(225), to_radians(210)>>
      [] v = "Uran"    -> <<PI, to_radians(225), to_radians(315), 0>>

-----------------------------------------------------------------------------
(* f32::sin and f32::cos of an angle in 1/1000 rad, to 1/1000: the angle   *)
(* is reduced to the first quadrant and the sine evaluated by its Taylor   *)
(* polynomial of degree 7.                                                 *)

SinQ(x) ==
    LET x2 == (x * x) \div 1000
        t3 == (x * x2) \div 6000
        t5 == (t3 * x2) \div 20000
        t7 == (t5 * x2) \div 42000
    IN  x - t3 + t5 - t7

sin(a) ==
    LET r == a % TWO_PI
    IN  IF r <= TWO_PI \div 4 THEN SinQ(r)
        ELSE IF r <= PI THEN SinQ(PI - r)
        ELSE IF r <= PI + TWO_PI \div 4 THEN -SinQ(r - PI)
        ELSE -SinQ(TWO_PI - r)

cos(a) == sin(a + TWO_PI \div 4)

-----------------------------------------------------------------------------
(* parry2d::query::contact between two balls.                              *)

\* Collider of the player (main.rs 548) and of an obstacle (789)
PlayerBall == PLAYER_SIZE \div 2 - 400
ObstacleBall == OBSTACLE_SIZE \div 2 - 600

\* contact(...).is_some() for the player at height py and a planet at the
\* same x and height cy with collider radius r: the centres are closer than
\* the two radii plus the prediction distance (both sides are squared).
PlanetContact(py, cy, r, prediction) ==
    Abs(cy - py) < Abs(PlayerBall + r + prediction)

\* contact.dist: the signed distance between the two balls
PlanetContactDist(py, cy, r) == Abs(cy - py) - (PlayerBall + r)

\* contact.normal1.y: from the player's centre to the planet's
PlanetContactNormal(py, cy) == IF cy > py THEN 1 ELSE IF cy < py THEN -1 ELSE 0

\* contact(...).is_some() for the player at (0, py) and an obstacle at
\* (ox, oy), with prediction distance 0
ObstacleContact(py, ox, oy) ==
    LET sum == PlayerBall + ObstacleBall
        dx == Abs(ox)
        dy == Abs(oy - py)
    IN  /\ dx < sum
        /\ dy < sum
        /\ dx * dx + dy * dy < sum * sum

-----------------------------------------------------------------------------
(* The schedules main() builds (main.rs 205-237, ui.rs 61-68).             *)

NoState == "NoState"

\* OnEnter(LoadingState::..) (main.rs 235-236)
OnEnterLoading(st) ==
    CASE st = "Planet"    -> {"spawn_planet"}
      [] st = "Obstacles" -> {"spawn_obstacles"}
      [] OTHER            -> {}

\* OnEnter(AppState::..) (main.rs 211, 237, ui.rs 67)
OnEnterApp(st) ==
    CASE st = "Playing"  -> {"start_game", "spawn_player"}
      [] st = "GameOver" -> {"restart_game", "show_replay_button"}

\* The systems of Update whose run conditions hold (main.rs 212-234,
\* ui.rs 63-66)
UpdateSystems(app, load) ==
    (IF app = "Playing"
     THEN {"rotate_planets", "shrink_current_planet", "move_obstacles_on_planet",
           "check_player_obstacle_collisions", "manage_planet_face"}
          \cup (IF load = "None"
                THEN {"player_jump", "check_player_planet_collisions"}
                ELSE {})
     ELSE {"interact_with_replay_button"})
    \cup (IF load = "Planet" THEN {"check_planets_loading"} ELSE {})
    \cup (IF load = "Obstacles" THEN {"check_obstacles_loading"} ELSE {})

\* The order main() and UIPlugin::build list the systems of Update in
ListedOrder ==
    <<"rotate_planets", "shrink_current_planet", "player_jump",
      "check_player_planet_collisions", "move_obstacles_on_planet",
      "check_player_obstacle_collisions", "manage_planet_face",
      "check_planets_loading", "check_obstacles_loading",
      "interact_with_replay_button">>

\* A system of Update may run: it has not run in this frame and every system
\* it is ordered after has (check_player_planet_collisions.after(player_jump)).
\* No other order is declared, so the executor may run the rest in any
\* order; outside the frames the exploration lets it, it runs them as listed.
Runnable(sys) ==
    /\ phase = "Update"
    /\ sys \in pending
    /\ sys = "check_player_planet_collisions" => "player_jump" \notin pending
    /\ free \/ \A i, j \in DOMAIN ListedOrder :
                  ListedOrder[j] = sys /\ i < j => ListedOrder[i] \notin pending

\* A system of the OnEnter schedule being run may run
Entering(sys) == phase = "StateTransition" /\ sys \in on_enter

-----------------------------------------------------------------------------
(* Entities.                                                               *)

\* spawn_planet's bundle (main.rs 345-387): Planet, Collider, Sprite,
\* Transform and the PlanetFace child
NewPlanet(variant, y) ==
    [variant |-> variant, is_playing |-> FALSE, obstacles |-> <<>>,
     radius |-> PLANET_SIZE \div 2, size |-> PLANET_SIZE, y |-> y,
     rotation |-> 0, face |-> 0, doomed |-> FALSE,
     \* history only: the planet when the running frame began
     at_start |-> [is_playing |-> FALSE, radius |-> PLANET_SIZE \div 2,
                   size |-> PLANET_SIZE, rotation |-> 0, face |-> 0,
                   obstacles |-> <<>>],
     \* history only: the player touched the planet in the running frame
     touched |-> FALSE]

\* spawn_player's bundle (main.rs 550-567)
NewPlayer ==
    [y |-> PLAYER_START_POSITION, velocity |-> 0, is_grounded |-> FALSE]

\* The position spawn_obstacles and move_obstacles_on_planet give an
\* obstacle at an angle of a planet (main.rs 771-774, 820-823)
ObstacleAt(angle, planet) ==
    [angle |-> angle,
     x |-> (cos(angle) * (planet.radius + OBSTACLE_SIZE \div 2)) \div 1000,
     y |-> planet.y + (sin(angle) * (planet.radius + OBSTACLE_SIZE \div 2)) \div 1000]

AllObstacles ==
    UNION {{planets[i].obstacles[j] : j \in DOMAIN planets[i].obstacles}
           : i \in DOMAIN planets}

-----------------------------------------------------------------------------
(* The state after App::new()...run() has built the app and the Startup    *)
(* schedule has run: no frame has begun.                                   *)

InitWith(h) ==
    /\ app_state = "Playing"
    /\ next_app_state = NoState
    /\ loading_state = "None"
    /\ next_loading_state = NoState
    /\ entered = FALSE
    /\ phase = "FrameEnd"
    /\ pending = {}
    /\ on_enter = {}
    /\ free = FALSE
    /\ dt = 1
    /\ planets = <<>>
    /\ player = <<>>
    /\ events = <<>>
    /\ game_manager = [infinite_mode |-> FALSE, score |-> 0]
    /\ loading = 0
    /\ replay_button = "Hidden"
    /\ budget = [deviated |-> FALSE, restarts |-> 0, horizon |-> h]
    /\ hist = [spawned |-> <<>>, space |-> FALSE, s |-> FALSE,
               completed |-> 0]

Init == InitWith(MaxScore)

InitDeep == InitWith(DeepScore)

-----------------------------------------------------------------------------
(* The frame: First (the event buffers are swapped), StateTransition,      *)
(* Update, and the commands of Update applied.                             *)

Snapshot(p) ==
    [p EXCEPT !.at_start = [is_playing |-> p.is_playing, radius |-> p.radius,
                            size |-> p.size, rotation |-> p.rotation,
                            face |-> p.face, obstacles |-> p.obstacles],
              !.touched = FALSE]

\* The exploration goes on: the counters the program never bounds are capped
Exploring ==
    /\ \A i \in DOMAIN player : player[i].velocity > -MaxFallSpeed
    /\ \A i \in DOMAIN planets : planets[i].size > MinSize
    /\ game_manager.score >= budget.horizon => planets = <<>>

\* A frame begins with a time step d: Events::update drops the events of
\* the frame before last
BeginFrame(d) ==
    /\ phase = "FrameEnd"
    /\ Exploring
    /\ d # 1 => ~budget.deviated
    /\ budget' = [budget EXCEPT !.deviated = @ \/ d # 1]
    /\ dt' = d
    /\ events' = [i \in DOMAIN SelectSeq(events, LAMBDA e : e.age = 0) |->
                    [SelectSeq(events, LAMBDA e : e.age = 0)[i] EXCEPT !.age = 1]]
    /\ planets' = [i \in DOMAIN planets |-> Snapshot(planets[i])]
    /\ hist' = [hist EXCEPT !.space = FALSE, !.s = FALSE]
    /\ phase' = "StateTransition"
    /\ pending' = {"LoadingState", "AppState"}
    /\ UNCHANGED <<app_state, next_app_state, loading_state,
                   next_loading_state, entered, on_enter,
                   player, game_manager, loading, free,
                   replay_button>>

\* run_enter_schedule::<AppState>, once, before the first apply_state_transition
run_enter_schedule ==
    /\ phase = "StateTransition"
    /\ on_enter = {}
    /\ ~entered
    /\ entered' = TRUE
    /\ on_enter' = OnEnterApp(app_state)
    /\ UNCHANGED <<app_state, next_app_state, loading_state,
                   next_loading_state, phase, pending, dt,
                   planets, player, events, game_manager,
                   loading, budget, hist, free,
                   replay_button>>

\* apply_state_transition::<LoadingState>
apply_state_transition_LoadingState ==
    /\ phase = "StateTransition"
    /\ on_enter = {}
    /\ "LoadingState" \in pending
    /\ pending' = pending \ {"LoadingState"}
    /\ next_loading_state' = NoState
    /\ IF next_loading_state # NoState /\ next_loading_state # loading_state
       THEN /\ loading_state' = next_loading_state
            /\ on_enter' = OnEnterLoading(next_loading_state)
       ELSE UNCHANGED <<loading_state, on_enter>>
    /\ UNCHANGED <<app_state, next_app_state, entered, phase, dt,
                   planets, player, events, game_manager,
                   loading, budget, hist, free,
                   replay_button>>

\* hide_replay_button (ui.rs 139-143), the one system of OnExit(GameOver)
hide_replay_button == "Hidden"

\* apply_state_transition::<AppState>: the OnExit schedule of the state left
\* runs, then the OnEnter schedule of the state entered
apply_state_transition_AppState ==
    /\ phase = "StateTransition"
    /\ on_enter = {}
    /\ entered
    /\ "AppState" \in pending
    /\ pending' = pending \ {"AppState"}
    /\ next_app_state' = NoState
    /\ IF next_app_state # NoState /\ next_app_state # app_state
       THEN /\ app_state' = next_app_state
            /\ on_enter' = OnEnterApp(next_app_state)
            /\ replay_button' = IF app_state = "GameOver"
                                THEN hide_replay_button ELSE replay_button
       ELSE UNCHANGED <<app_state, on_enter, replay_button>>
    /\ UNCHANGED <<loading_state, next_loading_state, entered,
                   phase, dt, planets, player, events,
                   game_manager, loading, budget, hist, free>>

\* StateTransition is over: Update begins, f: its systems run in any order
BeginUpdate(f) ==
    /\ phase = "StateTransition"
    /\ pending = {}
    /\ on_enter = {}
    /\ f => /\ ~budget.deviated
            /\ Cardinality(UpdateSystems(app_state, loading_state)) > 1
    /\ budget' = [budget EXCEPT !.deviated = @ \/ f]
    /\ free' = f
    /\ phase' = "Update"
    /\ pending' = UpdateSystems(app_state, loading_state)
    /\ UNCHANGED <<app_state, next_app_state, loading_state,
                   next_loading_state, entered, on_enter, dt,
                   planets, player, events, game_manager,
                   loading, hist,
                   replay_button>>

\* Update is over: its commands are applied (the despawns queued by
\* shrink_current_planet), and PostUpdate computes the visibility of the
\* nodes, which the next frame's ui_focus_system reads
EndFrame ==
    /\ phase = "Update"
    /\ pending = {}
    /\ phase' = "FrameEnd"
    /\ planets' = SelectSeq(planets, LAMBDA p : ~p.doomed)
    /\ replay_button' = IF replay_button = "Visible" THEN "Computed"
                        ELSE replay_button
    \* history only: the planets a completion despawned since start_game
    /\ hist' = [hist EXCEPT !.completed =
                   @ + Len(SelectSeq(planets, LAMBDA p : p.doomed))]
    /\ UNCHANGED <<app_state, next_app_state, loading_state,
                   next_loading_state, entered, pending,
                   on_enter, dt, player, events,
                   game_manager, loading, budget, free>>

-----------------------------------------------------------------------------
(* The systems of the OnEnter schedules.  Their commands are applied when  *)
(* the schedule ends; no other system of the schedule reads what they      *)
(* spawn or despawn, so the entities change with the system.               *)

\* start_game (main.rs 267-281)
start_game ==
    /\ Entering("start_game")
    /\ on_enter' = on_enter \ {"start_game"}
    /\ next_loading_state' = "Planet"
    /\ game_manager' = [infinite_mode |-> FALSE, score |-> 0]
    /\ events' = Append(events, [planet_variant_to_spawn |-> "Earth",
                                 last_planet_position |-> PLANET_SIZE * 2,
                                 age |-> 0])
    /\ hist' = [hist EXCEPT !.spawned = <<>>, !.completed = 0]
    /\ UNCHANGED <<app_state, next_app_state, loading_state,
                   entered, phase, pending, dt, planets,
                   player, loading, budget, free,
                   replay_button>>

\* spawn_player (main.rs 547-568)
spawn_player ==
    /\ Entering("spawn_player")
    /\ on_enter' = on_enter \ {"spawn_player"}
    /\ player' = Append(player, NewPlayer)
    /\ UNCHANGED <<app_state, next_app_state, loading_state,
                   next_loading_state, entered, phase,
                   pending, dt, planets, events,
                   game_manager, loading, budget, hist, free,
                   replay_button>>

\* restart_game (main.rs 284-313): every Planet, Obstacle and Player entity
\* is despawned
restart_game ==
    /\ Entering("restart_game")
    /\ on_enter' = on_enter \ {"restart_game"}
    /\ planets' = <<>>
    /\ player' = <<>>
    /\ UNCHANGED <<app_state, next_app_state, loading_state,
                   next_loading_state, entered, phase,
                   pending, dt, events, game_manager,
                   loading, budget, hist, free,
                   replay_button>>

\* show_replay_button (ui.rs 133-137)
show_replay_button ==
    /\ Entering("show_replay_button")
    /\ on_enter' = on_enter \ {"show_replay_button"}
    /\ replay_button' = "Visible"
    /\ UNCHANGED <<app_state, next_app_state, loading_state,
                   next_loading_state, entered, phase,
                   pending, dt, planets, player, events,
                   game_manager, loading, budget, hist, free>>

\* spawn_planet (main.rs 315-427): one planet for every event the reader has
\* not read yet, two planet sizes below the position the event carries
spawn_planet ==
    /\ Entering("spawn_planet")
    /\ Len(planets) + Len(events) <= MaxPlanets
    /\ on_enter' = on_enter \ {"spawn_planet"}
    /\ planets' = planets \o
          [i \in DOMAIN events |->
              NewPlanet(events[i].planet_variant_to_spawn,
                        events[i].last_planet_position - PLANET_SIZE * 2)]
    /\ loading' = loading + Len(events)
    /\ events' = <<>>
    /\ hist' = [hist EXCEPT !.spawned = @ \o
          [i \in DOMAIN events |-> events[i].planet_variant_to_spawn]]
    /\ UNCHANGED <<app_state, next_app_state, loading_state,
                   next_loading_state, entered, phase,
                   pending, dt, player, game_manager, budget,
                   free,
                   replay_button>>

\* The angles rand gives spawn_obstacles in infinite mode (main.rs 741-753):
\* the ends of the two ranges the angle is drawn from, less nothing or the
\* end of the gap range that applies
RandomAngles(last) ==
    LET drawn == {0, PI \div 4, PI, TWO_PI}
        gap(a) == IF last = 0 THEN {0}
                  ELSE IF Abs(a - last) < 262 THEN {0, 261}
                  ELSE IF Abs(a - last) < 1396 THEN {698, 1396}
                  ELSE {0}
    IN  UNION {{a - g : g \in gap(a)} : a \in drawn}

\* The layouts spawn_obstacles may draw in infinite mode: 1..=OBSTACLES_MAX_NUM
\* angles, each drawn knowing the one before (main.rs 730-762)
RECURSIVE RandomLayouts(_, _)
RandomLayouts(n, last) ==
    IF n = 0 THEN {<<>>}
    ELSE UNION {{<<a>> \o rest : rest \in RandomLayouts(n - 1, a)}
                : a \in RandomAngles(last)}

\* spawn_obstacles (main.rs 715-799): with exactly one planet, its obstacles
\* are spawned and listed, at the scripted angles unless in infinite mode
spawn_obstacles ==
    /\ Entering("spawn_obstacles")
    /\ on_enter' = on_enter \ {"spawn_obstacles"}
    /\ IF Len(planets) = 1
       THEN \E layout \in
                IF game_manager.infinite_mode
                THEN UNION {RandomLayouts(n, 0) :
                              n \in 1..Min(OBSTACLES_MAX_NUM, MaxRandomObstacles)}
                ELSE {get_obstacles(planets[1].variant)} :
              /\ planets' = [planets EXCEPT ![1].obstacles = @ \o
                    [i \in DOMAIN layout |-> ObstacleAt(layout[i], planets[1])]]
              /\ loading' = loading + Len(layout)
       ELSE UNCHANGED <<planets, loading>>
    /\ UNCHANGED <<app_state, next_app_state, loading_state,
                   next_loading_state, entered, phase,
                   pending, dt, player, events, game_manager,
                   budget, hist, free,
                   replay_button>>

-----------------------------------------------------------------------------
(* The systems of Update.  Each runs once a frame, in any order its        *)
(* ordering constraints allow.                                             *)

Ran(sys) == pending' = pending \ {sys}

\* rotate_planets without its test of is_playing
rotate_every_planet ==
    /\ Runnable("rotate_planets")
    /\ Ran("rotate_planets")
    /\ planets' = [i \in DOMAIN planets |->
          [planets[i] EXCEPT
              !.rotation = @ - PerFrame(PLANET_ROTATION_SPEED, dt)]]
    /\ UNCHANGED <<app_state, next_app_state, loading_state,
                   next_loading_state, entered, phase,
                   on_enter, dt, player, events,
                   game_manager, loading, budget, hist, free,
                   replay_button>>

\* rotate_planets (main.rs 463-471)
rotate_planets ==
    /\ Runnable("rotate_planets")
    /\ Ran("rotate_planets")
    /\ planets' = [i \in DOMAIN planets |->
          IF planets[i].is_playing
          THEN [planets[i] EXCEPT
                  !.rotation = @ - PerFrame(PLANET_ROTATION_SPEED, dt)]
          ELSE planets[i]]
    /\ UNCHANGED <<app_state, next_app_state, loading_state,
                   next_loading_state, entered, phase,
                   on_enter, dt, player, events,
                   game_manager, loading, budget, hist, free,
                   replay_button>>

\* new_planet_size.distance(PLANET_SHRINK_LIMIT) < 1. (main.rs 498): both
\* components of the size are equal, so the distance is sqrt(2) * |size - limit|
AtShrinkLimit(size) ==
    LET d == Abs(size - PLANET_SHRINK_LIMIT)
    IN  d < 100 /\ 2 * d * d < 100 * 100

\* The shrink step with the collider shrunk at the rate of the sprite
ShrunkWhole(p, d) ==
    [p EXCEPT !.size = @ - PerFrame(PLANET_SHRINK_SPEED, d),
              !.radius = @ - PerFrame(PLANET_SHRINK_SPEED, d)]

\* The planet after the shrink step of shrink_current_planet (main.rs 489-496)
Shrunk(p, d) ==
    [p EXCEPT !.size = @ - PerFrame(PLANET_SHRINK_SPEED, d),
              !.radius = @ - PerFrame(PLANET_SHRINK_SPEED \div 2, d)]

\* The planet is completed by this frame's shrink step
Completes(p, d) == p.is_playing /\ AtShrinkLimit(Shrunk(p, d).size)

\* The score counted twice for every completed planet
ScoreCountedTwice(score, completions) == score + 2 * completions

\* game_manager.score += 1 in each completing iteration (main.rs 516)
ScoreAfter(score, completions) == score + completions

\* shrink_current_planet (main.rs 474-519)
shrink_current_planet ==
    LET done == SelectSeq(planets, LAMBDA p : Completes(p, dt))
    IN  /\ Runnable("shrink_current_planet")
        /\ Ran("shrink_current_planet")
        /\ planets' = [i \in DOMAIN planets |->
              IF planets[i].is_playing
              THEN [Shrunk(planets[i], dt) EXCEPT
                      !.doomed = @ \/ Completes(planets[i], dt)]
              ELSE planets[i]]
        /\ next_loading_state' =
              IF Len(done) > 0 THEN "Planet" ELSE next_loading_state
        /\ events' = events \o
              [i \in DOMAIN done |->
                  [planet_variant_to_spawn |-> next(done[i].variant),
                   last_planet_position |-> done[i].y,
                   age |-> 0]]
        /\ game_manager' =
              [infinite_mode |-> game_manager.infinite_mode
                                   \/ \E i \in DOMAIN done :
                                        next(done[i].variant) = "Earth",
               score |-> ScoreAfter(game_manager.score, Len(done))]
        /\ UNCHANGED <<app_state, next_app_state, loading_state,
                   entered, phase, on_enter, dt, player,
                   loading, budget, hist, free,
                   replay_button>>

\* GRAVITY_STRENGTH * GRAVITY_STRENGTH.abs() (main.rs 582)
Gravity == (GRAVITY_STRENGTH * Abs(GRAVITY_STRENGTH)) \div 100

\* The velocity player_jump would leave if Space did not test is_grounded
JumpVelocityInAir(p, space, s, d) ==
    LET v0 == IF p.is_grounded THEN 0 ELSE p.velocity
        v1 == v0 + PerFrame(Gravity, d)
        v2 == IF space THEN PLAYER_JUMP_STRENGTH ELSE v1
    IN  IF s /\ ~p.is_grounded
        THEN v2 + PerFrame(PLAYER_FALL_ACCELERATION, d)
        ELSE v2

\* The velocity player_jump leaves (main.rs 578-601)
JumpVelocity(p, space, s, d) ==
    LET v0 == IF p.is_grounded THEN 0 ELSE p.velocity
        v1 == v0 + PerFrame(Gravity, d)
        v2 == IF space /\ p.is_grounded THEN PLAYER_JUMP_STRENGTH ELSE v1
    IN  IF s /\ ~p.is_grounded
        THEN v2 + PerFrame(PLAYER_FALL_ACCELERATION, d)
        ELSE v2

\* An obstacle of a playing planet is at most JumpWindow before the top of
\* the planet, where the player stands
ObstacleComing ==
    \E i \in DOMAIN planets : \E j \in DOMAIN planets[i].obstacles :
        /\ planets[i].is_playing
        /\ (planets[i].obstacles[j].angle - TWO_PI \div 4) % TWO_PI
              \in 1..JumpWindow

\* The keys of the frame are none a plain run presses
OffPlan(space, s) == s \/ (space /\ ~ObstacleComing)

\* player_jump (main.rs 570-605), space: Space was just pressed, s: S is held
player_jump(space, s) ==
    /\ Runnable("player_jump")
    /\ Ran("player_jump")
    /\ OffPlan(space, s) => ~budget.deviated
    /\ budget' = [budget EXCEPT !.deviated = @ \/ OffPlan(space, s)]
    /\ hist' = [hist EXCEPT !.space = space, !.s = s]
    /\ IF Len(player) = 1
       THEN player' = [player EXCEPT
              ![1].velocity = JumpVelocity(player[1], space, s, dt),
              ![1].y = @ + PerFrame(JumpVelocity(player[1], space, s, dt), dt)]
       ELSE UNCHANGED player
    /\ UNCHANGED <<app_state, next_app_state, loading_state,
                   next_loading_state, entered, phase,
                   on_enter, dt, planets, events,
                   game_manager, loading, free,
                   replay_button>>

\* The inner loop of check_player_planet_collisions (main.rs 630-670) from
\* planet i on: the player and the planets it leaves
RECURSIVE Collide(_, _, _)
Collide(pl, ps, i) ==
    IF i > Len(ps) THEN [player |-> pl, planets |-> ps]
    ELSE IF PlanetContact(pl.y, ps[i].y, ps[i].radius, 100)
    THEN Collide([pl EXCEPT
                    !.y = @ + PlanetContactDist(pl.y, ps[i].y, ps[i].radius)
                              * PlanetContactNormal(pl.y, ps[i].y),
                    !.is_grounded = TRUE],
                 [ps EXCEPT ![i].is_playing = TRUE, ![i].touched = TRUE],
                 i + 1)
    ELSE Collide([pl EXCEPT !.is_grounded = FALSE], ps, i + 1)

\* check_player_planet_collisions (main.rs 625-672)
check_player_planet_collisions ==
    /\ Runnable("check_player_planet_collisions")
    /\ Ran("check_player_planet_collisions")
    /\ IF Len(player) = 1
       THEN /\ player' = <<Collide(player[1], planets, 1).player>>
            /\ planets' = Collide(player[1], planets, 1).planets
       ELSE UNCHANGED <<player, planets>>
    /\ UNCHANGED <<app_state, next_app_state, loading_state,
                   next_loading_state, entered, phase,
                   on_enter, dt, events, game_manager,
                   loading, budget, hist, free,
                   replay_button>>

\* The obstacle after a step of move_obstacles_on_planet (main.rs 817-830)
Moved(o, planet, d) ==
    LET a == o.angle - PerFrame(OBSTACLE_MOVEMENT_SPEED, d)
    IN  [ObstacleAt(o.angle, planet) EXCEPT
            !.angle = IF Abs(a) > TWO_PI THEN 0 ELSE a]

\* move_obstacles_on_planet (main.rs 801-833)
move_obstacles_on_planet ==
    /\ Runnable("move_obstacles_on_planet")
    /\ Ran("move_obstacles_on_planet")
    /\ IF Len(planets) = 1 /\ planets[1].is_playing
       THEN planets' = [planets EXCEPT ![1].obstacles =
              [j \in DOMAIN @ |-> Moved(@[j], planets[1], dt)]]
       ELSE UNCHANGED planets
    /\ UNCHANGED <<app_state, next_app_state, loading_state,
                   next_loading_state, entered, phase,
                   on_enter, dt, player, events,
                   game_manager, loading, budget, hist, free,
                   replay_button>>

\* Some obstacle's collider overlaps the player's (main.rs 679-705)
ObstacleHit ==
    \E i \in DOMAIN player : \E o \in AllObstacles :
        ObstacleContact(player[i].y, o.x, o.y)

\* check_player_obstacle_collisions testing that the contact query succeeded
\* (is_ok) instead of what it found: any pair of a player and an obstacle
\* ends the game
check_player_obstacle_collisions_is_ok ==
    /\ Runnable("check_player_obstacle_collisions")
    /\ Ran("check_player_obstacle_collisions")
    /\ next_app_state' = IF player # <<>> /\ AllObstacles # {}
                         THEN "GameOver" ELSE next_app_state
    /\ UNCHANGED <<app_state, loading_state, next_loading_state,
                   entered, phase, on_enter, dt, planets,
                   player, events, game_manager, loading,
                   budget, hist, free,
                   replay_button>>

\* check_player_obstacle_collisions (main.rs 674-711)
check_player_obstacle_collisions ==
    /\ Runnable("check_player_obstacle_collisions")
    /\ Ran("check_player_obstacle_collisions")
    /\ next_app_state' = IF ObstacleHit THEN "GameOver" ELSE next_app_state
    /\ UNCHANGED <<app_state, loading_state, next_loading_state,
                   entered, phase, on_enter, dt, planets,
                   player, events, game_manager, loading,
                   budget, hist, free,
                   replay_button>>

\* The face manage_planet_face gives a playing planet (main.rs 532-539)
Face(p) ==
    IF p.radius < PLANET_FACE_BAD_THRESHOLD THEN 2
    ELSE IF p.radius < PLANET_FACE_NORMAL_THRESHOLD THEN 1
    ELSE p.face

\* manage_planet_face (main.rs 521-545)
manage_planet_face ==
    /\ Runnable("manage_planet_face")
    /\ Ran("manage_planet_face")
    /\ IF Len(planets) = 1 /\ planets[1].is_playing
       THEN planets' = [planets EXCEPT ![1].face = Face(planets[1])]
       ELSE UNCHANGED planets
    /\ UNCHANGED <<app_state, next_app_state, loading_state,
                   next_loading_state, entered, phase,
                   on_enter, dt, player, events,
                   game_manager, loading, budget, hist, free,
                   replay_button>>

\* check_planets_loading (main.rs 429-444), loaded: the group of tracked
\* handles is loaded (an empty group always is)
check_planets_loading(loaded) ==
    /\ Runnable("check_planets_loading")
    /\ Ran("check_planets_loading")
    /\ loading = 0 => loaded
    /\ IF loaded
       THEN next_loading_state' = "Obstacles" /\ loading' = 0
       ELSE UNCHANGED <<next_loading_state, loading>>
    /\ UNCHANGED <<app_state, next_app_state, loading_state,
                   entered, phase, on_enter, dt, planets,
                   player, events, game_manager, budget,
                   hist, free,
                   replay_button>>

\* check_obstacles_loading (main.rs 446-461)
check_obstacles_loading(loaded) ==
    /\ Runnable("check_obstacles_loading")
    /\ Ran("check_obstacles_loading")
    /\ loading = 0 => loaded
    /\ IF loaded
       THEN next_loading_state' = "None" /\ loading' = 0
       ELSE UNCHANGED <<next_loading_state, loading>>
    /\ UNCHANGED <<app_state, next_app_state, loading_state,
                   entered, phase, on_enter, dt, planets,
                   player, events, game_manager, budget,
                   hist, free,
                   replay_button>>

\* interact_with_replay_button (ui.rs 145-166), pressed: the button's
\* Interaction changed to Pressed, which ui_focus_system lets happen only to
\* a node whose computed visibility is visible
interact_with_replay_button(pressed) ==
    /\ Runnable("interact_with_replay_button")
    /\ Ran("interact_with_replay_button")
    /\ pressed => replay_button = "Computed" /\ budget.restarts < MaxRestarts
    /\ budget' = [budget EXCEPT !.restarts = IF pressed THEN @ + 1 ELSE @]
    /\ next_app_state' = IF pressed THEN "Playing" ELSE next_app_state
    /\ UNCHANGED <<app_state, loading_state, next_loading_state,
                   entered, phase, on_enter, dt, planets,
                   player, events, game_manager, loading,
                   hist, free,
                   replay_button>>

-----------------------------------------------------------------------------

Next ==
    \/ \E d \in DtSet : BeginFrame(d)
    \/ run_enter_schedule
    \/ apply_state_transition_LoadingState
    \/ apply_state_transition_AppState
    \/ start_game
    \/ spawn_player
    \/ restart_game
    \/ show_replay_button
    \/ spawn_planet
    \/ spawn_obstacles
    \/ \E f \in BOOLEAN : BeginUpdate(f)
    \/ rotate_planets
    \/ shrink_current_planet
    \/ \E space \in BOOLEAN, s \in BOOLEAN : player_jump(space, s)
    \/ check_player_planet_collisions
    \/ move_obstacles_on_planet
    \/ check_player_obstacle_collisions
    \/ manage_planet_face
    \/ \E loaded \in BOOLEAN : check_planets_loading(loaded)
    \/ \E loaded \in BOOLEAN : check_obstacles_loading(loaded)
    \/ \E pressed \in BOOLEAN : interact_with_replay_button(pressed)
    \/ EndFrame

Spec == Init /\ [][Next]_vars

SpecDeep == InitDeep /\ [][Next]_vars

-----------------------------------------------------------------------------
(* Properties.                                                             *)

\* The systems of Update have all run and their commands are not applied yet
UpdateDone == phase = "Update" /\ pending = {}

\* C1: a playing planet that shrinks down to the shrink limit is despawned
\* and its successor queued, whatever the time steps of the frames are: when
\* a frame is over no playing planet is left with a sprite size below
\* PLANET_SHRINK_LIMIT.
C1_NoPlayingPlanetBelowLimit ==
    phase = "FrameEnd" =>
        \A i \in DOMAIN planets :
            planets[i].is_playing => planets[i].size >= PLANET_SHRINK_LIMIT

\* C2: in every state at most one planet has is_playing = true.
C2_AtMostOnePlaying ==
    Cardinality({i \in DOMAIN planets : planets[i].is_playing}) <= 1

\* C3: the planets spawned since the last (re)start have the variants Earth,
\* Venus, Mars, Mercury, Jupiter, Neptune, Uran, Earth, ... in this order:
\* the k-th is the k-th of the cycle, none is skipped, none spawned twice.
C3_VariantsInCyclicOrder ==
    \A k \in DOMAIN hist.spawned :
        hist.spawned[k] =
            <<"Earth", "Venus", "Mars", "Mercury", "Jupiter", "Neptune",
              "Uran">>[((k - 1) % 7) + 1]

\* C4: GameOver is requested exactly by check_player_obstacle_collisions
\* finding the player's collider overlapping an obstacle's in a Playing
\* frame, the request stands until the next state transition, which moves
\* AppState to GameOver, and AppState becomes GameOver in no other way; it
\* goes back to Playing only by a press of the replay button.
C4_GameOverExactlyOnObstacleHit ==
    /\ [][(next_app_state # "GameOver" /\ next_app_state' = "GameOver")
            => /\ app_state = "Playing"
               /\ Runnable("check_player_obstacle_collisions")
               /\ ObstacleHit]_vars
    /\ [][(/\ "check_player_obstacle_collisions" \in pending
           /\ "check_player_obstacle_collisions" \notin pending'
           /\ ObstacleHit)
            => next_app_state' = "GameOver"]_vars
    /\ [][next_app_state = "GameOver"
            => \/ next_app_state' = "GameOver"
               \/ ("AppState" \in pending /\ app_state' = "GameOver")]_vars
    /\ [][(app_state = "Playing" /\ app_state' # "Playing")
            => (next_app_state = "GameOver" /\ app_state' = "GameOver")]_vars
    /\ [][(app_state = "GameOver" /\ app_state' # "GameOver")
            => (next_app_state = "Playing" /\ app_state' = "Playing")]_vars
    /\ [][(next_app_state # "Playing" /\ next_app_state' = "Playing")
            => /\ app_state = "GameOver"
               /\ Runnable("interact_with_replay_button")
               /\ budget'.restarts = budget.restarts + 1]_vars

\* C4's case: the game was over and the replay button brought it back
C4_Witness == app_state = "Playing" /\ budget.restarts > 0 /\ Len(planets) > 0

\* C5: when a frame is over the player's is_grounded is true exactly if the
\* player is within the contact margin of the existing planet; in
\* particular, as stated here, it is not true when a frame is over and no
\* planet exists.
C5_NotGroundedWithoutPlanet ==
    (phase = "FrameEnd" /\ planets = <<>>) =>
        \A i \in DOMAIN player : ~player[i].is_grounded

\* C6: a planet that is playing when a frame begins has, when the frame is
\* over, a radius smaller by exactly PLANET_SHRINK_SPEED / 2 times the time
\* step and a sprite size smaller by PLANET_SHRINK_SPEED times the time step;
\* and no planet's radius is ever above what it was when the frame began.
C6_ShrinksByRate ==
    \A i \in DOMAIN planets :
        /\ planets[i].radius <= planets[i].at_start.radius
        /\ (phase = "FrameEnd" /\ planets[i].at_start.is_playing) =>
              /\ planets[i].radius = planets[i].at_start.radius
                                       - (PLANET_SHRINK_SPEED * dt) \div 20
              /\ planets[i].size = planets[i].at_start.size
                                       - (PLANET_SHRINK_SPEED * dt) \div 10

\* C6's case: a frame of 2/10 s of a playing planet is over
C6_Witness ==
    /\ phase = "FrameEnd"
    /\ dt = 2
    /\ \E i \in DOMAIN planets :
          /\ planets[i].at_start.is_playing
          /\ planets[i].radius = planets[i].at_start.radius - 500

\* C7: a planet is spawned not playing, with radius PLANET_SIZE.y / 2; it
\* becomes playing only in a frame in which the player contacts it; as long
\* as it is not playing its radius, sprite size, rotation, face and the
\* angles and positions of its obstacles are what they were when the frame
\* began; and a playing planet stays playing as long as it exists.
C7_IdleUntilTouched ==
    /\ [](\A i \in DOMAIN planets :
            /\ (planets[i].is_playing /\ ~planets[i].at_start.is_playing)
                  => planets[i].touched
            /\ planets[i].at_start.is_playing => planets[i].is_playing
            /\ ~planets[i].is_playing =>
                  /\ planets[i].radius = planets[i].at_start.radius
                  /\ planets[i].size = planets[i].at_start.size
                  /\ planets[i].rotation = planets[i].at_start.rotation
                  /\ planets[i].face = planets[i].at_start.face
                  /\ Len(planets[i].obstacles)
                        >= Len(planets[i].at_start.obstacles)
                  /\ \A j \in DOMAIN planets[i].at_start.obstacles :
                        planets[i].obstacles[j]
                           = planets[i].at_start.obstacles[j])
    /\ [][\A i \in DOMAIN planets' :
            i > Len(planets) =>
                /\ ~planets'[i].is_playing
                /\ planets'[i].radius = PLANET_SIZE \div 2
                /\ planets'[i].size = PLANET_SIZE]_vars

\* C7's case: every system of a Playing frame has run on a planet that has
\* its obstacles and is not playing yet
C7_Witness ==
    /\ UpdateDone
    /\ app_state = "Playing"
    /\ loading_state = "None"
    /\ \E i \in DOMAIN planets :
          ~planets[i].is_playing /\ Len(planets[i].obstacles) > 0

\* C8: in each frame of a playing planet the angle of each of its listed
\* obstacles is decremented by OBSTACLE_MOVEMENT_SPEED times the time step
\* and reset to 0 when its absolute value exceeds 2 pi, and every obstacle's
\* angle lies in [-2 pi, 2 pi].
C8_AngleDecrementedAndWrapped ==
    /\ \A o \in AllObstacles : Abs(o.angle) <= TWO_PI
    /\ (UpdateDone /\ app_state = "Playing") =>
          \A i \in DOMAIN planets :
              planets[i].at_start.is_playing =>
                  \A j \in DOMAIN planets[i].at_start.obstacles :
                      LET a == planets[i].at_start.obstacles[j].angle
                                 - (OBSTACLE_MOVEMENT_SPEED * dt) \div 10
                      IN  planets[i].obstacles[j].angle
                             = IF Abs(a) > TWO_PI THEN 0 ELSE a

\* C9: once manage_planet_face has run in a frame (as the last system, after
\* the shrink step) the face of a playing planet is Bad (2) iff its radius
\* is below PLANET_FACE_BAD_THRESHOLD, Normal (1) iff it is at least that
\* and below PLANET_FACE_NORMAL_THRESHOLD, Good (0) iff it is at least that;
\* and a planet's face never moves back.
C9_FaceReflectsRadius ==
    /\ \A i \in DOMAIN planets : planets[i].face >= planets[i].at_start.face
    /\ (UpdateDone /\ app_state = "Playing" /\ ~free) =>
          \A i \in DOMAIN planets :
              planets[i].is_playing =>
                  /\ planets[i].face = 2
                        <=> planets[i].radius < PLANET_FACE_BAD_THRESHOLD
                  /\ planets[i].face = 1
                        <=> /\ planets[i].radius >= PLANET_FACE_BAD_THRESHOLD
                            /\ planets[i].radius < PLANET_FACE_NORMAL_THRESHOLD
                  /\ planets[i].face = 0
                        <=> planets[i].radius >= PLANET_FACE_NORMAL_THRESHOLD

\* C10: player_jump sets the velocity to PLAYER_JUMP_STRENGTH exactly when
\* Space was just pressed and the player is grounded; otherwise a grounded
\* player's velocity is reset to 0 and gravity added (S adds nothing), and a
\* player in the air gets gravity, and PLAYER_FALL_ACCELERATION times the
\* time step if S is held, whether Space is pressed or not; the position is
\* integrated with the velocity so obtained.
C10_PlayerJumpVelocity ==
    [][(/\ "player_jump" \in pending
        /\ "player_jump" \notin pending'
        /\ Len(player) = 1)
        => /\ Len(player') = 1
           /\ player'[1].velocity = PLAYER_JUMP_STRENGTH
                 <=> (hist'.space /\ player[1].is_grounded)
           /\ (player[1].is_grounded /\ ~hist'.space)
                 => player'[1].velocity
                       = (((GRAVITY_STRENGTH * Abs(GRAVITY_STRENGTH)) \div 100)
                            * dt) \div 10
           /\ ~player[1].is_grounded
                 => player'[1].velocity
                       = player[1].velocity
                           + (((GRAVITY_STRENGTH * Abs(GRAVITY_STRENGTH)) \div 100)
                                * dt) \div 10
                           + (IF hist'.s
                              THEN (PLAYER_FALL_ACCELERATION * dt) \div 10
                              ELSE 0)
           /\ player'[1].y = player[1].y + (player'[1].velocity * dt) \div 10
           /\ player'[1].is_grounded = player[1].is_grounded]_vars

\* C10's case: the grounded player has jumped in this frame
C10_Witness ==
    /\ hist.space
    /\ "player_jump" \notin pending
    /\ phase = "Update"
    /\ Len(player) = 1
    /\ player[1].velocity = PLAYER_JUMP_STRENGTH

\* C11: in a Playing frame the updates take effect in the order player_jump,
\* check_player_planet_collisions, then shrink_current_planet,
\* rotate_planets and move_obstacles_on_planet, then
\* check_player_obstacle_collisions: as long as the contact resolution of a
\* frame has not run, none of the shrink, the rotation, the orbit and the
\* obstacle check of that frame has run.
C11_ContactResolutionFirst ==
    (phase = "Update" /\ "check_player_planet_collisions" \in pending) =>
        {"shrink_current_planet", "rotate_planets",
         "move_obstacles_on_planet", "check_player_obstacle_collisions"}
            \subseteq pending

\* C12: GameManager.score equals the number of planets completed since the
\* last entry into Playing: start_game sets it to 0, each completion adds
\* exactly 1 (a frame completing n planets adds n), and no other step changes
\* it, the frames spent in GameOver included.
C12_ScoreCountsCompletions ==
    /\ [](game_manager.score =
             hist.completed + Len(SelectSeq(planets, LAMBDA p : p.doomed)))
    /\ [][game_manager'.score # game_manager.score =>
             \/ /\ "start_game" \in on_enter \ on_enter'
                /\ game_manager'.score = 0
             \/ /\ "shrink_current_planet" \in pending \ pending'
                /\ app_state = "Playing"
                /\ game_manager'.score = game_manager.score
                      + Len(SelectSeq(planets, LAMBDA p : Completes(p, dt)))]_vars

\* a frame spent in GameOver after a planet was completed and counted
C12_Witness ==
    /\ app_state = "GameOver"
    /\ phase = "FrameEnd"
    /\ game_manager.score >= 1
    /\ hist.completed = game_manager.score

\* C13: infinite_mode is false after a (re)start until Uran, the seventh
\* planet, is completed, and until then every planet receives exactly the
\* layout its variant scripts: once loading is over (LoadingState None, no
\* transition requested) each planet has as many obstacles as get_obstacles()
\* lists, and until the planet is played the i-th obstacle is at the i-th
\* scripted angle.
C13_ScriptedLayouts ==
    /\ game_manager.infinite_mode =>
          hist.completed + Len(SelectSeq(planets, LAMBDA p : p.doomed)) >= 7
    /\ (/\ loading_state = "None"
        /\ next_loading_state = NoState
        /\ on_enter = {}
        /\ ~game_manager.infinite_mode)
          => \A i \in DOMAIN planets :
                LET p == planets[i]
                    layout == get_obstacles(p.variant)
                IN  ~p.doomed =>
                      /\ Len(p.obstacles) = Len(layout)
                      /\ ~p.is_playing =>
                            \A j \in DOMAIN layout :
                                p.obstacles[j].angle = layout[j]

\* C14: restart returns the game to its initial state.  Once restart_game has
\* run, no Planet, Obstacle or Player exists for as long as the state is
\* GameOver; when start_game and spawn_player have run on entering Playing
\* (start_game's event is the one event of this frame), exactly one Player
\* exists, at PLAYER_START_POSITION with velocity 0 and not grounded, the
\* score is 0, infinite_mode is false and no planet exists yet; and the first
\* planet spawned after start_game is Earth.
C14_RestartIsClean ==
    /\ (app_state = "GameOver" /\ "restart_game" \notin on_enter) =>
          planets = <<>> /\ player = <<>>
    /\ (/\ app_state = "Playing"
        /\ phase = "StateTransition"
        /\ on_enter = {}
        /\ \E i \in DOMAIN events : events[i].age = 0) =>
          /\ player = <<NewPlayer>>
          /\ game_manager = [infinite_mode |-> FALSE, score |-> 0]
          /\ planets = <<>>
    /\ (app_state = "Playing" /\ "start_game" \notin on_enter
          /\ hist.spawned # <<>>) =>
          hist.spawned[1] = "Earth"

\* C15: LoadingState changes only along the cycle None -> Planet ->
\* Obstacles -> None; each PlanetSpawnEvent spawns a planet, so none is
\* dropped unread when a frame begins; and the player moves only while
\* LoadingState is None.
C15_LoadingCycle ==
    [][/\ loading_state' # loading_state =>
             <<loading_state, loading_state'>> \in
                 {<<"None", "Planet">>, <<"Planet", "Obstacles">>,
                  <<"Obstacles", "None">>}
       /\ (phase = "FrameEnd" /\ phase' = "StateTransition") =>
             Len(events') = Len(events)
       /\ (Len(player) = 1 /\ Len(player') = 1 /\ player'[1].y # player[1].y) =>
             loading_state = "None"]_vars

\* C16: at most one Planet entity exists in any reachable state, a frame in
\* which a planet is completed and the player hits an obstacle included.
C16_AtMostOnePlanet == Len(planets) <= 1

=============================================================================
